---- MODULE Spec2Model ----
(***************************************************************************)
(* Model of the MLX90614 infrared thermometer driver (src/src/lib.rs).     *)
(*                                                                         *)
(* The driver session owns a bus handle, a bus address and a delay         *)
(* primitive.  Every public operation is a sequence of calls on the two    *)
(* collaborators; the model takes one step per collaborator call and       *)
(* records each call in `trace`.  The device behind the bus is modelled as *)
(* a register file `mem` that stores what is written to it; the line may   *)
(* corrupt a received frame and any transaction may fail.                  *)
(*                                                                         *)
(* f32 quantities are fixed-point integers counting 1/900 of a degree, so  *)
(* that the constants 273.15, 1/50 and 5/9 of the source are exact; the    *)
(* rounding of f32 arithmetic is modelled separately, on the Raw <-> Kelvin *)
(* edge, where it decides the result.                                      *)
(***************************************************************************)
EXTENDS Integers, Sequences, FiniteSets, TLC

VARIABLES
    pc,        \* position of the caller: "unbuilt", "idle" or a step inside an operation
    address,   \* Mlx90614.address (0 while no session exists)
    mem,       \* the device's EEPROM cells, by register address
    op,        \* the public operation being run / last run
    arg,       \* its argument: a Temperature, an address, or <<>>
    reg,       \* eeprom_write's reg parameter
    data,      \* eeprom_write's data parameter
    ids,       \* get_id's id0..id3 read so far
    trace,     \* collaborator calls made by the current / last operation
    result,    \* what the last operation returned
    seen,      \* what another bus master read during an EEPROM write sequence
    last_set,  \* history: the set_address under way, or the last one if it succeeded
    crc_in,    \* checksum harness: the byte sequence
    crc_out,   \* checksum harness: crc8(crc_in), or -1 before the call
    t_in,      \* temperature harness: the value converted
    t_fn,      \* temperature harness: the conversion applied ("none" before)
    t_out      \* temperature harness: its result

vars == <<pc, address, mem, op, arg, reg, data, ids, trace, result, seen, last_set,
          crc_in, crc_out, t_in, t_fn, t_out>>

drv_vars == <<pc, address, mem, op, arg, reg, data, ids, trace, result, seen, last_set>>
crc_vars == <<crc_in, crc_out>>
tmp_vars == <<t_in, t_fn, t_out>>

(***************************************************************************)
(* Bounds.                                                                 *)
(***************************************************************************)
MaxLen == 3          \* longest byte sequence given to the checksum harness
MaxTemp == 5         \* the temperature inputs are -MaxTemp..MaxTemp steps from zero

(***************************************************************************)
(* Fixed-width integer helpers.                                            *)
(***************************************************************************)
RECURSIVE BitXor(_, _, _)
BitXor(a, b, n) ==
    IF n = 0 THEN 0
    ELSE (((a % 2) + (b % 2)) % 2) + 2 * BitXor(a \div 2, b \div 2, n - 1)

RECURSIVE BitAnd(_, _, _)
BitAnd(a, b, n) ==
    IF n = 0 THEN 0
    ELSE ((a % 2) * (b % 2)) + 2 * BitAnd(a \div 2, b \div 2, n - 1)

RECURSIVE BitOr(_, _, _)
BitOr(a, b, n) ==
    IF n = 0 THEN 0
    ELSE (IF (a % 2) + (b % 2) > 0 THEN 1 ELSE 0) + 2 * BitOr(a \div 2, b \div 2, n - 1)

Lo(w) == BitAnd(w, 255, 16)          \* (data & 0xFF) as u8
Hi(w) == w \div 256                  \* (data >> 8) as u8
AsU16(i) == (i + 65536) % 65536      \* i16 as u16
AsI16(w) == IF w >= 32768 THEN w - 65536 ELSE w   \* u16 as i16
AsU8(w) == w % 256                   \* u16 as u8

(***************************************************************************)
(* Register map.                                                           *)
(***************************************************************************)
TA == 6
TOBJ1 == 7
TOBJ2 == 8
TOMAX == 32
TOMIN == 33
ADDRESS == 46
ID0 == 60
ID1 == 61
ID2 == 62
ID3 == 63

DEFAULT_ADDRESS == 90

RamRegs == {TA, TOBJ1, TOBJ2}
EepromRegs == {TOMAX, TOMIN, ADDRESS, ID0, ID1, ID2, ID3}

(***************************************************************************)
(* Checksum engine.                                                        *)
(***************************************************************************)
\* one turn of the inner loop `for _ in 0..8`
crc8_shift_nopoly(crc) == (crc * 2) % 256

crc8_shift(crc) ==
    IF BitAnd(crc, 128, 8) # 0
    THEN BitXor((crc * 2) % 256, 7, 8)
    ELSE (crc * 2) % 256

RECURSIVE crc8_bits(_, _)
crc8_bits(crc, n) == IF n = 0 THEN crc ELSE crc8_bits(crc8_shift(crc), n - 1)

\* the whole inner loop, for every value the register can hold at its start
crc8_byte == [c \in 0..255 |-> crc8_bits(c, 8)]

RECURSIVE crc8_from(_, _, _)
crc8_from(crc, bytes, i) ==
    IF i > Len(bytes) THEN crc
    ELSE LET x == crc8_byte[BitXor(crc, bytes[i], 8)]
         IN  crc8_from(x, bytes, i + 1)

crc8(bytes) == crc8_from(0, bytes, 1)

(***************************************************************************)
(* Reference CRC-8: the remainder of message * x^8 divided by              *)
(* x^8 + x^2 + x + 1 over GF(2), message bits taken most significant       *)
(* first, no reflection, zero initial value, no final XOR.                 *)
(***************************************************************************)
Poly == <<1, 0, 0, 0, 0, 0, 1, 1, 1>>

ByteBits(b) == [k \in 1..8 |-> (b \div (2 ^ (8 - k))) % 2]

MsgBits(bytes) ==
    [k \in 1..(8 * Len(bytes) + 8) |->
        IF k > 8 * Len(bytes) THEN 0
        ELSE ByteBits(bytes[((k - 1) \div 8) + 1])[((k - 1) % 8) + 1]]

RECURSIVE PolyDivide(_, _, _)
PolyDivide(bits, i, n) ==
    IF i > n THEN bits
    ELSE IF bits[i] = 0 THEN PolyDivide(bits, i + 1, n)
    ELSE PolyDivide([k \in DOMAIN bits |->
                        IF k >= i /\ k <= i + 8
                        THEN (bits[k] + Poly[k - i + 1]) % 2
                        ELSE bits[k]], i + 1, n)

RECURSIVE BitsValue(_, _, _)
BitsValue(bits, from, to) ==
    IF from > to THEN 0
    ELSE bits[to] + 2 * BitsValue(bits, from, to - 1)

RefCrc8(bytes) ==
    LET n == 8 * Len(bytes)
        r == PolyDivide(MsgBits(bytes), 1, n)
    IN  BitsValue(r, n + 1, n + 8)

(***************************************************************************)
(* Temperature value model.  A Temperature is [tag, v]; for the f32 forms  *)
(* v counts 1/900 of a degree, for Raw it is the signed 16-bit count.      *)
(***************************************************************************)
Offset27315 == 245835        \* 273.15 degrees
Ticks32 == 28800             \* 32.0 degrees
TicksPerRaw == 18            \* 1/50 degree

Temp(tag, v) == [tag |-> tag, v |-> v]

TruncDiv(a, b) == IF a >= 0 THEN a \div b ELSE -((-a) \div b)

\* `f as i16`: truncation toward zero, saturating at the ends of i16
F32AsI16(x) ==
    IF x > 32767 THEN 32767 ELSE IF x < -32768 THEN -32768 ELSE x

RECURSIVE into_kelvin(_)
RECURSIVE into_celsius(_)
RECURSIVE into_raw(_)

as_kelvin(t) == Temp("Kelvin", into_kelvin(t))

as_celsius(t) == Temp("Celsius", into_celsius(t))

as_raw(t) == Temp("Raw", into_raw(t))

into_raw(t) ==
    CASE t.tag = "Raw" -> t.v
      [] t.tag = "Kelvin" -> F32AsI16(TruncDiv(t.v, TicksPerRaw))
      [] t.tag \in {"Celsius", "Farenheit"} -> into_raw(as_kelvin(t))

into_kelvin(t) ==
    CASE t.tag = "Kelvin" -> t.v
      [] t.tag = "Raw" -> t.v * TicksPerRaw
      [] t.tag = "Celsius" -> t.v - Offset27315
      [] t.tag = "Farenheit" -> into_kelvin(as_celsius(t))

into_celsius(t) ==
    CASE t.tag = "Celsius" -> t.v
      [] t.tag = "Kelvin" -> t.v + Offset27315
      [] t.tag = "Farenheit" -> TruncDiv((t.v - Ticks32) * 5, 9)
      [] t.tag = "Raw" -> into_celsius(as_kelvin(t))

(***************************************************************************)
(* Address validator.                                                      *)
(***************************************************************************)
validate_address_strict(a) == ~(a > 127 \/ a = 0)

validate_address_nobound(a) == ~(a = 0)

validate_address(a) == ~(a > 128 \/ a = 0)

(***************************************************************************)
(* 64-bit words, as four 16-bit limbs, least significant first.            *)
(***************************************************************************)
U64FromU16(w) == <<w, 0, 0, 0>>

U64Shl(x, n) ==
    [i \in 1..4 |-> IF i - (n \div 16) >= 1 THEN x[i - (n \div 16)] ELSE 0]

U64Or(x, y) == [i \in 1..4 |-> BitOr(x[i], y[i], 16)]

HexDigits16(w) == <<(w \div 4096) % 16, (w \div 256) % 16, (w \div 16) % 16, w % 16>>

\* the 16 hexadecimal digits of a 64-bit word, most significant first
U64Hex(x) == HexDigits16(x[4]) \o HexDigits16(x[3]) \o HexDigits16(x[2]) \o HexDigits16(x[1])

get_id_assemble_swapped(id0, id1, id2, id3) ==
    U64Or(U64Or(U64Or(U64Shl(U64FromU16(id0), 48), U64Shl(U64FromU16(id1), 32)),
                U64Shl(U64FromU16(id2), 16)),
          U64FromU16(id3))

get_id_assemble(id0, id1, id2, id3) ==
    U64Or(U64Or(U64Or(U64Shl(U64FromU16(id3), 48), U64Shl(U64FromU16(id2), 32)),
                U64Shl(U64FromU16(id1), 16)),
          U64FromU16(id0))

(***************************************************************************)
(* Register protocol: the pure parts of i2c_read and i2c_write.            *)
(***************************************************************************)
Ok(v) == [status |-> "Ok", err |-> <<>>, val |-> v]
Err(e) == [status |-> "Err", err |-> e, val |-> <<>>]
Pending == [status |-> "Pending", err |-> <<>>, val |-> <<>>]

SA_W_nowrap(a) == a * 2

SA_W(a) == (a * 2) % 256         \* self.address << 1
SA_R(a) == SA_W(a) + 1           \* (self.address << 1) + 1

\* out is what i2c.write_read did: [ok, rx]
i2c_read_nocheck(a, r, out) ==
    IF ~out.ok THEN Err(<<"I2C">>)
    ELSE Ok(out.rx[2] * 256 + out.rx[1])

i2c_read(a, r, out) ==
    IF ~out.ok THEN Err(<<"I2C">>)
    ELSE LET lsb == out.rx[1]
             msb == out.rx[2]
             pec == out.rx[3]
             crc == crc8(<<SA_W(a), r, SA_R(a), lsb, msb>>)
         IN  IF crc # pec THEN Err(<<"Crc">>)
             ELSE Ok(BitOr(msb * 256, lsb, 16))

i2c_write_payload_swapped(a, r, d) ==
    LET lsb == Hi(d)
        msb == Lo(d)
        crc == crc8(<<SA_W(a), r, lsb, msb>>)
    IN  <<r, lsb, msb, crc>>

\* the payload of the one bus write of i2c_write
i2c_write_payload(a, r, d) ==
    LET lsb == Lo(d)
        msb == Hi(d)
        crc == crc8(<<SA_W(a), r, lsb, msb>>)
    IN  <<r, lsb, msb, crc>>

\* set_address: keep the high byte, replace the low byte
address_value_nomask(c, a) == BitOr(c, a, 16)

address_value(c, a) == BitOr(BitAnd(c, 65280, 16), a, 16)

\* read_object / read_object2: bit 15 is the sensor's flag
object_result_noflag(r) ==
    IF r.status # "Ok" THEN r
    ELSE Ok(Temp("Raw", AsI16(r.val)))

object_result(r) ==
    IF r.status # "Ok" THEN r
    ELSE IF BitAnd(r.val, 32768, 16) # 0 THEN Err(<<"Flag">>)
    ELSE Ok(Temp("Raw", AsI16(r.val)))

plain_result_flag(r) ==
    IF r.status # "Ok" THEN r
    ELSE IF BitAnd(r.val, 32768, 16) # 0 THEN Err(<<"Flag">>)
    ELSE Ok(Temp("Raw", AsI16(r.val)))

\* read_ambient / get_min / get_max
plain_result(r) ==
    IF r.status # "Ok" THEN r
    ELSE Ok(Temp("Raw", AsI16(r.val)))

(***************************************************************************)
(* The collaborators: the bus with the device behind it, and the delay.    *)
(***************************************************************************)
RamWords == {15000, 33024, 65535}     \* 0x3A98, 0x8100, 0xFFFF: what a RAM register may hold
NoiseMasks == {1}                     \* bits the line may flip in the low byte
PecMasks == {128}                     \* bits the line may flip in the integrity byte

IdWords == <<4369, 8738, 13107, 17476>>   \* 0x1111, 0x2222, 0x3333, 0x4444

AddrInputs == {0, 1, 128, 129, 255}       \* arguments of with_address
SetAddrInputs == {0, 1, 90, 128, 129}     \* arguments of set_address

TempArgs ==                               \* arguments of set_min / set_max
    { Temp("Raw", -2),
      Temp("Kelvin", 225009),             \* 250.01 K
      Temp("Celsius", 513000),            \* 570.00 C
      Temp("Farenheit", 900000) }         \* 1000.00 F

\* the 16-bit words the device may answer with for register r
DeviceWord(r) == IF r \in RamRegs THEN RamWords ELSE {mem[r]}

\* the frames the session may receive: the device's frame, possibly with a
\* flipped data bit (the device-side checksum then covers either the sent or
\* the received data) and possibly with a flipped integrity bit
PecChoices(a, r, l, m) ==
    LET c == crc8(<<SA_W(a), r, SA_R(a), l, m>>)
    IN  {c} \cup { BitXor(c, x, 8) : x \in PecMasks }

Frames(a, r) ==
    UNION { UNION { { <<l, Hi(w), p>> : p \in PecChoices(a, r, l, Hi(w)) } :
                    l \in {Lo(w)} \cup { BitXor(Lo(w), x, 8) : x \in NoiseMasks } } :
            w \in DeviceWord(r) }

\* outcomes of i2c.write_read(address, &[reg], &mut data)
BusReadOutcomes(a, r) ==
    { [ok |-> FALSE, rx |-> <<>>] } \cup { [ok |-> TRUE, rx |-> f] : f \in Frames(a, r) }

ReadEvent(a, r, out) ==
    [ev |-> "write_read", addr |-> a, bytes |-> <<r>>, rx |-> out.rx, ok |-> out.ok]

WriteEvent(a, bytes, ok) ==
    [ev |-> "write", addr |-> a, bytes |-> bytes, rx |-> <<>>, ok |-> ok]

DelayEvent(ms) ==
    [ev |-> "delay", addr |-> 0, bytes |-> <<ms>>, rx |-> <<>>, ok |-> TRUE]

\* the device stores an acknowledged, checksum-valid register write
DeviceStore(m, a, bytes) ==
    IF /\ Len(bytes) = 4
       /\ bytes[1] \in DOMAIN m
       /\ bytes[4] = crc8(<<SA_W(a), bytes[1], bytes[2], bytes[3]>>)
    THEN [m EXCEPT ![bytes[1]] = bytes[3] * 256 + bytes[2]]
    ELSE m

SettleMs == 5

NotSeen == [at |-> "none", reg |-> 0, val |-> 0]

NoSet == [a |-> 0, hi |-> 0, ok |-> FALSE]

(***************************************************************************)
(* Construction.                                                           *)
(***************************************************************************)
WithAddress(a) ==
    /\ pc = "unbuilt"
    /\ op' = "with_address"
    /\ arg' = a
    /\ trace' = <<>>
    /\ IF validate_address(a)
       THEN /\ address' = a
            /\ pc' = "done"
            /\ result' = Ok(<<>>)
       ELSE /\ result' = Err(<<"InvalidAddress", a>>)
            /\ UNCHANGED <<address, pc>>
    /\ UNCHANGED <<mem, reg, data, ids, crc_vars, tmp_vars, seen, last_set>>

New ==
    /\ pc = "unbuilt"
    /\ op' = "new"
    /\ arg' = <<>>
    /\ trace' = <<>>
    /\ IF validate_address(DEFAULT_ADDRESS)
       THEN /\ address' = DEFAULT_ADDRESS
            /\ pc' = "done"
            /\ result' = Ok(<<>>)
       ELSE /\ result' = Err(<<"InvalidAddress", DEFAULT_ADDRESS>>)
            /\ UNCHANGED <<address, pc>>
    /\ UNCHANGED <<mem, reg, data, ids, crc_vars, tmp_vars, seen, last_set>>

(***************************************************************************)
(* Operations made of one register read.                                   *)
(***************************************************************************)
address_result_hi(r) == IF r.status # "Ok" THEN r ELSE Ok(Hi(r.val))

address_result(r) == IF r.status # "Ok" THEN r ELSE Ok(AsU8(r.val))

\* what the operation `name` returns for the result r of its i2c_read
read_result(name, r) ==
    CASE name \in {"read_object", "read_object2"} -> object_result(r)
      [] name \in {"read_ambient", "get_min", "get_max"} -> plain_result(r)
      [] name = "get_address" -> address_result(r)

\* one call of `name`, which reads register r
ReadOp(name, r) ==
    /\ pc = "idle"
    /\ \E out \in BusReadOutcomes(address, r) :
          /\ trace' = <<ReadEvent(address, r, out)>>
          /\ result' = read_result(name, i2c_read(address, r, out))
    /\ pc' = "done"
    /\ op' = name
    /\ UNCHANGED <<address, mem, arg, reg, data, ids, crc_vars, tmp_vars, seen, last_set>>

ReadObject == ReadOp("read_object", TOBJ1)

ReadObject2 == ReadOp("read_object2", TOBJ2)

ReadAmbient == ReadOp("read_ambient", TA)

GetMin == ReadOp("get_min", TOMIN)

GetMax == ReadOp("get_max", TOMAX)

GetAddress == ReadOp("get_address", ADDRESS)

(***************************************************************************)
(* get_id: four reads, one step each.                                      *)
(***************************************************************************)
IdRegs == <<ID0, ID1, ID2, ID3>>

GetId ==
    /\ pc = "idle"
    /\ pc' = "id_read"
    /\ op' = "get_id"
    /\ UNCHANGED <<address, mem, arg, reg, data, ids, trace, result, crc_vars, tmp_vars, seen, last_set>>

GetIdRead ==
    /\ pc = "id_read"
    /\ LET r == IdRegs[Len(ids) + 1] IN
       \E out \in BusReadOutcomes(address, r) :
          LET res == i2c_read(address, r, out) IN
          /\ trace' = Append(trace, ReadEvent(address, r, out))
          /\ IF res.status # "Ok"
             THEN /\ result' = res
                  /\ pc' = "done"
                  /\ UNCHANGED ids
             ELSE /\ ids' = Append(ids, res.val)
                  /\ IF Len(ids) = 3
                     THEN /\ result' = Ok(get_id_assemble(ids[1], ids[2], ids[3], res.val))
                          /\ pc' = "done"
                     ELSE UNCHANGED <<result, pc>>
    /\ UNCHANGED <<address, mem, op, arg, reg, data, crc_vars, tmp_vars, seen, last_set>>

(***************************************************************************)
(* set_min, set_max, set_address and the EEPROM write sequence.            *)
(***************************************************************************)
SetMin(t) ==
    /\ pc = "idle"
    /\ pc' = "ew_erase"
    /\ op' = "set_min"
    /\ arg' = t
    /\ reg' = TOMIN
    /\ data' = AsU16(into_raw(t))
    /\ UNCHANGED <<address, mem, ids, trace, result, crc_vars, tmp_vars, seen, last_set>>

SetMax(t) ==
    /\ pc = "idle"
    /\ pc' = "ew_erase"
    /\ op' = "set_max"
    /\ arg' = t
    /\ reg' = TOMAX
    /\ data' = AsU16(into_raw(t))
    /\ UNCHANGED <<address, mem, ids, trace, result, crc_vars, tmp_vars, seen, last_set>>

\* set_address up to the validator
SetAddress(a) ==
    /\ pc = "idle"
    /\ op' = "set_address"
    /\ arg' = a
    /\ IF validate_address(a)
       THEN /\ pc' = "sa_read"
            /\ last_set' = [a |-> a, hi |-> Hi(mem[ADDRESS]), ok |-> FALSE]
            /\ UNCHANGED result
       ELSE /\ pc' = "done"
            /\ result' = Err(<<"InvalidAddress", a>>)
            /\ UNCHANGED last_set
    /\ UNCHANGED <<address, mem, reg, data, ids, trace, crc_vars, tmp_vars, seen>>

SetAddressRead_unchecked ==
    /\ pc = "sa_read"
    /\ \E out \in BusReadOutcomes(address, ADDRESS) :
          LET res == i2c_read(address, ADDRESS, out) IN
          /\ trace' = Append(trace, ReadEvent(address, ADDRESS, out))
          /\ reg' = ADDRESS
          /\ data' = address_value(IF res.status = "Ok" THEN res.val ELSE 0, arg)
          /\ pc' = "ew_erase"
          /\ UNCHANGED result
    /\ UNCHANGED <<address, mem, op, arg, ids, crc_vars, tmp_vars, seen, last_set>>

\* set_address: the read of the current address register
SetAddressRead ==
    /\ pc = "sa_read"
    /\ \E out \in BusReadOutcomes(address, ADDRESS) :
          LET res == i2c_read(address, ADDRESS, out) IN
          /\ trace' = Append(trace, ReadEvent(address, ADDRESS, out))
          /\ IF res.status # "Ok"
             THEN /\ result' = res
                  /\ pc' = "done"
                  /\ UNCHANGED <<reg, data>>
             ELSE /\ reg' = ADDRESS
                  /\ data' = address_value(res.val, arg)
                  /\ pc' = "ew_erase"
                  /\ UNCHANGED result
    /\ UNCHANGED <<address, mem, op, arg, ids, crc_vars, tmp_vars, seen, last_set>>

\* the error eeprom_write's caller returns: set_min and set_max hand the
\* transport error through, set_address wraps it with `?`
EepromErr == IF op = "set_address" THEN Err(<<"I2C">>) ELSE Err(<<"I2CError">>)

EepromWriteStep_ignore(d, next) ==
    \E ok \in BOOLEAN :
        LET bytes == i2c_write_payload(address, reg, d) IN
        /\ trace' = Append(trace, WriteEvent(address, bytes, ok))
        /\ mem' = IF ok THEN DeviceStore(mem, address, bytes) ELSE mem
        /\ pc' = next
        /\ UNCHANGED result

\* one i2c_write(r, d) inside eeprom_write, going to pc `next` on success
EepromWriteStep(d, next) ==
    \E ok \in BOOLEAN :
        LET bytes == i2c_write_payload(address, reg, d) IN
        /\ trace' = Append(trace, WriteEvent(address, bytes, ok))
        /\ IF ok
           THEN /\ mem' = DeviceStore(mem, address, bytes)
                /\ pc' = next
                /\ UNCHANGED result
           ELSE /\ result' = EepromErr
                /\ pc' = "done"
                /\ UNCHANGED mem

EepromErase_data ==
    /\ pc = "ew_erase"
    /\ EepromWriteStep(data, "ew_delay1")
    /\ UNCHANGED <<address, op, arg, reg, data, ids, crc_vars, tmp_vars, seen, last_set>>

EepromErase ==
    /\ pc = "ew_erase"
    /\ EepromWriteStep(0, "ew_delay1")
    /\ UNCHANGED <<address, op, arg, reg, data, ids, crc_vars, tmp_vars, seen, last_set>>

EepromDelay1 ==
    /\ pc = "ew_delay1"
    /\ trace' = Append(trace, DelayEvent(SettleMs))
    /\ pc' = "ew_program"
    /\ UNCHANGED <<address, mem, op, arg, reg, data, ids, result, crc_vars, tmp_vars, seen, last_set>>

EepromProgram ==
    /\ pc = "ew_program"
    /\ EepromWriteStep(data, "ew_delay2")
    /\ UNCHANGED <<address, op, arg, reg, data, ids, crc_vars, tmp_vars, seen, last_set>>

EepromDelay2_readdress ==
    /\ pc = "ew_delay2"
    /\ trace' = Append(trace, DelayEvent(SettleMs))
    /\ pc' = "done"
    /\ result' = Ok(<<>>)
    /\ address' = IF op = "set_address" THEN arg ELSE address
    /\ last_set' = IF op = "set_address" THEN [last_set EXCEPT !.ok = TRUE] ELSE last_set
    /\ UNCHANGED <<mem, op, arg, reg, data, ids, crc_vars, tmp_vars, seen>>

EepromDelay2 ==
    /\ pc = "ew_delay2"
    /\ trace' = Append(trace, DelayEvent(SettleMs))
    /\ pc' = "done"
    /\ result' = Ok(<<>>)
    /\ last_set' = IF op = "set_address" THEN [last_set EXCEPT !.ok = TRUE] ELSE last_set
    /\ UNCHANGED <<address, mem, op, arg, reg, data, ids, crc_vars, tmp_vars, seen>>

\* the caller takes the result; the session is free for the next call
Return ==
    /\ pc = "done"
    /\ pc' = "idle"
    /\ op' = "none"
    /\ arg' = <<>>
    /\ reg' = 0
    /\ data' = 0
    /\ ids' = <<>>
    /\ trace' = <<>>
    /\ result' = Pending
    /\ seen' = NotSeen
    /\ last_set' = IF last_set.ok THEN last_set ELSE NoSet
    /\ UNCHANGED <<address, mem, crc_vars, tmp_vars>>

(***************************************************************************)
(* Another master on the same bus reads, at the device's address, the cell *)
(* an EEPROM write sequence is working on.                                 *)
(***************************************************************************)
AgentRead ==
    /\ pc \in {"ew_erase", "ew_delay1", "ew_program", "ew_delay2"}
    /\ seen = NotSeen
    /\ seen' = [at |-> pc, reg |-> reg, val |-> mem[reg]]
    /\ UNCHANGED <<pc, address, mem, op, arg, reg, data, ids, trace, result,
                   last_set, crc_vars, tmp_vars>>

(***************************************************************************)
(* The driver with its device.                                             *)
(***************************************************************************)
CrcIdle == crc_in = <<>> /\ crc_out = -1
TmpIdle == t_in = Temp("Raw", 0) /\ t_fn = "none" /\ t_out = 0

InitMem ==
    { [r \in EepromRegs |->
         CASE r = TOMAX -> 65534
           [] r = TOMIN -> 12500
           [] r = ADDRESS -> hi * 256 + DEFAULT_ADDRESS
           [] r = ID0 -> IdWords[1]
           [] r = ID1 -> IdWords[2]
           [] r = ID2 -> IdWords[3]
           [] r = ID3 -> IdWords[4]] : hi \in {190} }

DrvInit ==
    /\ pc = "unbuilt"
    /\ address = 0
    /\ mem \in InitMem
    /\ op = "none"
    /\ arg = <<>>
    /\ reg = 0
    /\ data = 0
    /\ ids = <<>>
    /\ trace = <<>>
    /\ result = Pending
    /\ seen = NotSeen
    /\ last_set = NoSet

Init ==
    /\ DrvInit
    /\ CrcIdle
    /\ TmpIdle

Next ==
    \/ New
    \/ \E a \in AddrInputs : WithAddress(a)
    \/ ReadObject
    \/ ReadObject2
    \/ ReadAmbient
    \/ GetMin
    \/ GetMax
    \/ GetAddress
    \/ GetId
    \/ GetIdRead
    \/ \E t \in TempArgs : SetMin(t)
    \/ \E t \in TempArgs : SetMax(t)
    \/ \E a \in SetAddrInputs : SetAddress(a)
    \/ SetAddressRead
    \/ EepromErase
    \/ EepromDelay1
    \/ EepromProgram
    \/ EepromDelay2
    \/ Return
    \/ AgentRead

Spec == Init /\ [][Next]_vars

(***************************************************************************)
(* The checksum engine on its own: build a byte sequence, then call crc8.  *)
(***************************************************************************)
CrcBytes == {0, 1, 7, 128, 255}

CrcPush(b) ==
    /\ crc_out = -1
    /\ Len(crc_in) < MaxLen
    /\ crc_in' = Append(crc_in, b)
    /\ UNCHANGED <<crc_out, drv_vars, tmp_vars>>

CrcApply ==
    /\ crc_out = -1
    /\ crc_out' = crc8(crc_in)
    /\ UNCHANGED <<crc_in, drv_vars, tmp_vars>>

InitCrc ==
    /\ DrvInit
    /\ CrcIdle
    /\ TmpIdle

NextCrc ==
    \/ \E b \in CrcBytes : CrcPush(b)
    \/ CrcApply

SpecCrc == InitCrc /\ [][NextCrc]_vars

(***************************************************************************)
(* The temperature conversions on their own: pick a value, convert it.     *)
(***************************************************************************)
\* Raw inputs 2999 counts apart, f32 inputs 37.01 degrees apart
TempInputs ==
    { Temp("Raw", k * 2999) : k \in (-MaxTemp)..MaxTemp }
    \cup { Temp(tag, k * 33309) :
             tag \in {"Kelvin", "Celsius", "Farenheit"}, k \in (-MaxTemp)..MaxTemp }

ApplyIntoKelvin ==
    /\ t_fn = "none"
    /\ t_fn' = "into_kelvin"
    /\ t_out' = into_kelvin(t_in)
    /\ UNCHANGED <<t_in, drv_vars, crc_vars>>

ApplyIntoCelsius ==
    /\ t_fn = "none"
    /\ t_fn' = "into_celsius"
    /\ t_out' = into_celsius(t_in)
    /\ UNCHANGED <<t_in, drv_vars, crc_vars>>

ApplyIntoRaw ==
    /\ t_fn = "none"
    /\ t_fn' = "into_raw"
    /\ t_out' = into_raw(t_in)
    /\ UNCHANGED <<t_in, drv_vars, crc_vars>>

InitTemp ==
    /\ DrvInit
    /\ CrcIdle
    /\ t_in \in TempInputs
    /\ t_fn = "none"
    /\ t_out = 0

NextTemp ==
    \/ ApplyIntoKelvin
    \/ ApplyIntoCelsius
    \/ ApplyIntoRaw

SpecTemp == InitTemp /\ [][NextTemp]_vars

(***************************************************************************)
(* Reading the trace.                                                      *)
(***************************************************************************)
RxWord(e) == e.rx[2] * 256 + e.rx[1]

TxWord(e) == e.bytes[3] * 256 + e.bytes[2]

PecGood(e) ==
    e.rx[3] = crc8(<<(2 * e.addr) % 256, e.bytes[1], ((2 * e.addr) % 256) + 1,
                     e.rx[1], e.rx[2]>>)

IsRead(e, r) == e.ev = "write_read" /\ e.addr = address /\ e.bytes = <<r>>

IsWrite(e, r, v) ==
    /\ e.ev = "write"
    /\ e.addr = address
    /\ Len(e.bytes) = 4
    /\ e.bytes[1] = r
    /\ TxWord(e) = v

IsDelay(e, ms) == e.ev = "delay" /\ e.bytes = <<ms>>

AllOk(tr) == \A i \in 1..Len(tr) : tr[i].ok

\* the shape of an EEPROM write sequence: 1 is a write of 0, 2 a delay,
\* 3 a write of v, 4 a delay
EepromShape(tr, r, v) ==
    /\ Len(tr) <= 4
    /\ Len(tr) >= 1 => IsWrite(tr[1], r, 0)
    /\ Len(tr) >= 2 => IsDelay(tr[2], 5)
    /\ Len(tr) >= 3 => IsWrite(tr[3], r, v)
    /\ Len(tr) >= 4 => IsDelay(tr[4], 5)

SetReg == IF op = "set_min" THEN TOMIN ELSE TOMAX

(***************************************************************************)
(* C1: a set_min(t) or set_max(t) in which no transaction fails puts       *)
(* exactly write(reg, 0), delay(5), write(reg, t.into_raw()), delay(5) on  *)
(* the collaborators, reg being TOMIN for set_min and TOMAX for set_max:   *)
(* two writes, the settle delay between them, and no read.                 *)
(***************************************************************************)
C1_EepromWriteTrace ==
    (op \in {"set_min", "set_max"} /\ AllOk(trace)) =>
        /\ EepromShape(trace, SetReg, AsU16(into_raw(arg)))
        /\ pc = "done" => (Len(trace) = 4 /\ result = Ok(<<>>))
        /\ \A i \in 1..Len(trace) : trace[i].ev # "write_read"
        /\ Cardinality({i \in 1..Len(trace) : trace[i].ev = "write"}) <= 2

C1_Witness ==
    /\ pc = "done"
    /\ op = "set_max"
    /\ arg.tag = "Celsius"
    /\ result.status = "Ok"
    /\ Len(trace) = 4
    /\ TxWord(trace[3]) = 14842

\* the events of the EEPROM write sequence inside the trace
EepromPart == IF op = "set_address" THEN Tail(trace) ELSE trace

(***************************************************************************)
(* C2: in the EEPROM write sequence a transport failure is returned at     *)
(* once and the rest is abandoned.  A failed erase write is followed by no *)
(* delay and no program write; a failed program write is followed by       *)
(* nothing and leaves the target cell holding 0.                           *)
(***************************************************************************)
C2_AbandonOnFailure ==
    (op \in {"set_min", "set_max", "set_address"} /\ trace # <<>>) =>
        LET ew == EepromPart IN
        /\ Cardinality({i \in 1..Len(ew) : ew[i].ev = "write"}) <= 2
        /\ \A i \in 1..Len(ew) :
            ~ew[i].ok =>
                /\ i = Len(ew)
                /\ pc = "done"
                /\ result.status = "Err"
                /\ result.err \in {<<"I2C">>, <<"I2CError">>}
                /\ i \in {1, 3}
                /\ i = 3 => (ew[1].ok /\ IsDelay(ew[2], 5) /\ mem[reg] = 0)

C2_Witness ==
    /\ pc = "done"
    /\ op = "set_min"
    /\ Len(trace) = 3
    /\ trace[1].ok
    /\ ~trace[3].ok
    /\ result.status = "Err"
    /\ mem[TOMIN] = 0

ReadOps ==
    {"read_ambient", "read_object", "read_object2", "get_min", "get_max",
     "get_address", "get_id"}

\* what the operation makes of the word w of its only read
SurfacedAs(w) ==
    CASE op \in {"read_ambient", "get_min", "get_max"} ->
             result = Ok(Temp("Raw", IF w >= 32768 THEN w - 65536 ELSE w))
      [] op \in {"read_object", "read_object2"} ->
             \/ result = Ok(Temp("Raw", w))
             \/ result = Err(<<"Flag">>)
      [] op = "get_address" -> result = Ok(w % 256)

(***************************************************************************)
(* C3: a register read whose bus transaction succeeds fails with Crc and   *)
(* returns no value whenever the received integrity byte differs from crc8 *)
(* over [address<<1, register, (address<<1)+1, lsb, msb]; otherwise it     *)
(* yields msb*256 + lsb.  No public read operation surfaces a corrupted    *)
(* read as a value.                                                        *)
(***************************************************************************)
C3_ChecksumVerifiedRead ==
    /\ (op \in ReadOps \ {"get_id"} /\ pc = "done" /\ trace[1].ok) =>
          /\ ~PecGood(trace[1]) => result = Err(<<"Crc">>)
          /\ PecGood(trace[1]) => SurfacedAs(RxWord(trace[1]))
    /\ (op \in {"get_id", "set_address"}) =>
          \A i \in 1..Len(trace) :
             (trace[i].ev = "write_read" /\ trace[i].ok) =>
                /\ ~PecGood(trace[i]) =>
                      (i = Len(trace) /\ pc = "done" /\ result = Err(<<"Crc">>))
                /\ (PecGood(trace[i]) /\ op = "get_id") => ids[i] = RxWord(trace[i])
                /\ (PecGood(trace[i]) /\ op = "set_address") =>
                      (pc # "done" \/ result # Err(<<"Crc">>))

C3_Witness ==
    /\ pc = "done"
    /\ op = "get_max"
    /\ trace[1].ok
    /\ ~PecGood(trace[1])
    /\ result = Err(<<"Crc">>)

(***************************************************************************)
(* C4: read_object and read_object2 fail with Flag, returning no           *)
(* Temperature, for every checksum-valid raw value with bit 15 set, and    *)
(* return Temperature::Raw of the value when bit 15 is clear.              *)
(***************************************************************************)
C4_ObjectFlag ==
    (op \in {"read_object", "read_object2"} /\ pc = "done"
        /\ trace[1].ok /\ PecGood(trace[1])) =>
        LET w == RxWord(trace[1]) IN
        /\ IsRead(trace[1], IF op = "read_object" THEN TOBJ1 ELSE TOBJ2)
        /\ w >= 32768 => result = Err(<<"Flag">>)
        /\ w < 32768 => result = Ok(Temp("Raw", w))

C4_Witness ==
    /\ pc = "done"
    /\ op = "read_object2"
    /\ trace[1].ok
    /\ PecGood(trace[1])
    /\ RxWord(trace[1]) = 33024
    /\ result = Err(<<"Flag">>)

Rejected(a) == a = 0 \/ a > 128

(***************************************************************************)
(* C5: set_address(a) with a = 0 or a > 0x80 returns InvalidAddress(a)     *)
(* before any bus activity: no read, no write, no delay, and the device's  *)
(* address cell is unchanged.                                              *)
(***************************************************************************)
C5_RejectBeforeBus ==
    /\ [](op = "set_address" /\ Rejected(arg) =>
             (pc = "done" /\ trace = <<>> /\ result = Err(<<"InvalidAddress", arg>>)))
    /\ [][(op' = "set_address" /\ Rejected(arg')) => mem' = mem]_vars

C5_Witness ==
    /\ pc = "done"
    /\ op = "set_address"
    /\ arg = 129
    /\ trace = <<>>
    /\ result = Err(<<"InvalidAddress", 129>>)

(***************************************************************************)
(* C6: a set_address(a) with valid a in which no transaction fails reads   *)
(* the address register once and then runs the EEPROM write sequence on    *)
(* the address register with (c AND 0xFF00) OR a, c being the content      *)
(* read: the high byte is kept and only the low byte is replaced.          *)
(***************************************************************************)
C6_AddressLowByteOnly ==
    (op = "set_address" /\ ~Rejected(arg) /\ trace # <<>> /\ AllOk(trace)
        /\ PecGood(trace[1])) =>
        LET c == RxWord(trace[1]) IN
        /\ IsRead(trace[1], ADDRESS)
        /\ EepromShape(Tail(trace), ADDRESS, (c \div 256) * 256 + arg)
        /\ \A i \in 2..Len(trace) : trace[i].ev # "write_read"
        /\ pc = "done" => (Len(trace) = 5 /\ result = Ok(<<>>))

C6_Witness ==
    /\ pc = "done"
    /\ op = "set_address"
    /\ arg = 128
    /\ result = Ok(<<>>)
    /\ Len(trace) = 5
    /\ RxWord(trace[1]) = 48731
    /\ TxWord(trace[4]) = 48768

(***************************************************************************)
(* C7: the address validator rejects a = 0 and a > 0x80 with               *)
(* InvalidAddress(a) and accepts 1..0x80; with_address(a) succeeds exactly *)
(* for the accepted addresses and new() always succeeds with 0x5A.         *)
(***************************************************************************)
C7_AddressValidator ==
    /\ \A a \in 0..255 : validate_address(a) <=> (1 <= a /\ a <= 128)
    /\ op = "with_address" =>
          /\ result.status = "Ok" <=> (1 <= arg /\ arg <= 128)
          /\ result.status = "Ok" => (pc = "done" /\ address = arg)
          /\ result.status # "Ok" =>
                (pc = "unbuilt" /\ result = Err(<<"InvalidAddress", arg>>))
    /\ op = "new" => (pc = "done" /\ result = Ok(<<>>) /\ address = 90)

C7_Witness ==
    /\ pc = "done"
    /\ op = "with_address"
    /\ arg = 128
    /\ address = 128
    /\ result = Ok(<<>>)

ExampleHex == <<4, 4, 4, 4, 3, 3, 3, 3, 2, 2, 2, 2, 1, 1, 1, 1>>

(***************************************************************************)
(* C8: get_id reads ID0, ID1, ID2, ID3 in that order and, when all four    *)
(* succeed with words w0..w3, returns w0 + w1*2^16 + w2*2^32 + w3*2^48;    *)
(* reads 0x1111, 0x2222, 0x3333, 0x4444 give 0x4444333322221111.           *)
(***************************************************************************)
C8_IdentityAssembly ==
    op = "get_id" =>
        /\ Len(trace) <= 4
        /\ \A i \in 1..Len(trace) : IsRead(trace[i], IdRegs[i])
        /\ (pc = "done" /\ result.status = "Ok") =>
              /\ Len(trace) = 4
              /\ result.val = [i \in 1..4 |-> RxWord(trace[i])]
              /\ [i \in 1..4 |-> RxWord(trace[i])] = IdWords =>
                    U64Hex(result.val) = ExampleHex

C8_Witness ==
    /\ pc = "done"
    /\ op = "get_id"
    /\ result.status = "Ok"
    /\ [i \in 1..4 |-> RxWord(trace[i])] = <<4369, 8738, 13107, 17476>>
    /\ U64Hex(result.val) = ExampleHex

(***************************************************************************)
(* C9: for every byte sequence of bounded length crc8 is the CRC-8 of the  *)
(* reference: most significant bit first, polynomial 0x07, initial value   *)
(* 0, no reflection, no final XOR; 0 for the empty sequence; always one    *)
(* byte.                                                                   *)
(***************************************************************************)
C9_Crc8Reference ==
    crc_out # -1 =>
        /\ crc_out = RefCrc8(crc_in)
        /\ crc_out \in 0..255
        /\ crc_in = <<>> => crc_out = 0

C9_Witness ==
    /\ crc_out # -1
    /\ Len(crc_in) = MaxLen
    /\ crc_in[1] = 128
    /\ crc_out # 0

(***************************************************************************)
(* C10: the Kelvin/Celsius edge follows celsius = kelvin - 273.15:         *)
(* Kelvin(k).into_celsius() is k - 273.15 and Celsius(c).into_kelvin() is  *)
(* c + 273.15, and the conversions routed through the edge (Raw to         *)
(* Celsius, Celsius to Raw) inherit that offset.                           *)
(***************************************************************************)
C10_KelvinCelsiusOffset ==
    /\ (t_fn = "into_celsius" /\ t_in.tag = "Kelvin") => t_out = t_in.v - Offset27315
    /\ (t_fn = "into_kelvin" /\ t_in.tag = "Celsius") => t_out = t_in.v + Offset27315
    /\ (t_fn = "into_celsius" /\ t_in.tag = "Raw") =>
          t_out = t_in.v * TicksPerRaw - Offset27315
    /\ (t_fn = "into_raw" /\ t_in.tag = "Celsius") =>
          t_out = F32AsI16(TruncDiv(t_in.v + Offset27315, TicksPerRaw))

(***************************************************************************)
(* C11: the EEPROM write sequence is not atomic on the bus: between the    *)
(* erase write and the program write of set_min, set_max or set_address    *)
(* the target cell holds 0, and another bus master that reads the cell at  *)
(* the device's address between the two writes observes 0, not the old or  *)
(* the new value.                                                          *)
(***************************************************************************)
C11_ZeroBetweenWrites ==
    /\ pc \in {"ew_delay1", "ew_program"} => mem[reg] = 0
    /\ seen.at \in {"ew_delay1", "ew_program"} =>
          (seen.reg = reg /\ seen.val = 0 /\ op \in {"set_min", "set_max", "set_address"})

C11_Witness ==
    /\ pc = "done"
    /\ op = "set_address"
    /\ result = Ok(<<>>)
    /\ seen.at = "ew_program"
    /\ seen.val = 0
    /\ last_set.hi # 0
    /\ data # 0
    /\ mem[ADDRESS] = data

(***************************************************************************)
(* The Raw <-> Kelvin edge in f32 arithmetic.  An f32 is [m, e], standing  *)
(* for m * 2^e with |m| <= 2^24; a result is rounded to 24 significant     *)
(* bits, to nearest, ties to even.  The operands here are far from the     *)
(* subnormal and the overflow range.  d is a small constant (d * 2^24 must *)
(* fit the integers of the checker).                                       *)
(***************************************************************************)
Abs(x) == IF x < 0 THEN -x ELSE x

Sign(x) == IF x < 0 THEN -1 ELSE 1

Two23 == 8388608
Two24 == 16777216

\* n / d rounded to the nearest integer, ties to even (n >= 0, d > 0)
RoundHalfEven(n, d) ==
    LET q == n \div d
        r == n % d
    IN  IF 2 * r > d \/ (2 * r = d /\ q % 2 = 1) THEN q + 1 ELSE q

\* the least k with a * 2^k >= lim (a > 0)
RECURSIVE ScaleUp(_, _, _)
ScaleUp(a, lim, k) == IF a >= lim THEN k ELSE ScaleUp(2 * a, lim, k + 1)

\* the least s with p / 2^s < 2^24 (p >= 0)
RECURSIVE ScaleDown(_, _)
ScaleDown(p, s) == IF p < Two24 THEN s ELSE ScaleDown(p \div 2, s + 1)

\* v as f32, exact for a 16-bit integer
F32FromI16(v) == [m |-> v, e |-> 0]

\* x / d in f32, for an x whose significand has at most 16 bits
F32Div(x, d) ==
    IF x.m = 0 THEN x
    ELSE LET a == Abs(x.m)
             k == ScaleUp(a, d * Two23, 0)
         IN  [m |-> Sign(x.m) * RoundHalfEven(a * (2 ^ k), d), e |-> x.e - k]

\* x * d in f32
F32Mul(x, d) ==
    IF x.m = 0 THEN x
    ELSE LET p == Abs(x.m) * d
             s == ScaleDown(p, 0)
         IN  [m |-> Sign(x.m) * RoundHalfEven(p, 2 ^ s), e |-> x.e + s]

\* x as i16: toward zero, saturating
F32ToI16(x) ==
    IF x.e >= 0
    THEN (IF x.e > 15 /\ x.m # 0
          THEN (IF x.m > 0 THEN 32767 ELSE -32768)
          ELSE F32AsI16(x.m * (2 ^ x.e)))
    ELSE IF -x.e > 30 THEN 0
    ELSE F32AsI16(TruncDiv(x.m, 2 ^ (-x.e)))

\* Temperature::Raw(v).into_kelvin()
raw_into_kelvin_f32_intdiv(v) == F32FromI16(TruncDiv(v, 50))

raw_into_kelvin_f32(v) == F32Div(F32FromI16(v), 50)

\* Temperature::Kelvin(k).into_raw()
kelvin_into_raw_f32(k) == F32ToI16(F32Mul(k, 50))

\* Raw(v).as_kelvin().as_raw(), as the payload of the Raw it returns
raw_kelvin_raw(v) == kelvin_into_raw_f32(raw_into_kelvin_f32(v))

ApplyRawKelvinRaw ==
    /\ t_fn = "none"
    /\ t_in.tag = "Raw"
    /\ t_fn' = "raw_kelvin_raw"
    /\ t_out' = raw_kelvin_raw(t_in.v)
    /\ UNCHANGED <<t_in, drv_vars, crc_vars>>

InitTrip ==
    /\ DrvInit
    /\ CrcIdle
    /\ t_in \in { Temp("Raw", v) : v \in -32768..32767 }
    /\ t_fn = "none"
    /\ t_out = 0

NextTrip == ApplyRawKelvinRaw

SpecTrip == InitTrip /\ [][NextTrip]_vars

(***************************************************************************)
(* C12: for every signed 16-bit r, Raw(r).as_kelvin().as_raw() is Raw(r)   *)
(* up to a truncation tolerance of at most 1 unit: Raw to Kelvin divides   *)
(* by 50, the inverse multiplies by 50 and truncates toward zero, and the  *)
(* result is again a raw count of the same scale.                          *)
(***************************************************************************)
C12_RawKelvinRoundTrip ==
    t_fn = "raw_kelvin_raw" =>
        LET r == t_in.v
            k == raw_into_kelvin_f32(r)
        IN  /\ Abs(t_out - r) <= 1
            /\ Abs(t_out) <= Abs(r)
            /\ t_out \in -32768..32767
            \* k is r / 50 to within half a unit of its last place
            /\ r # 0 => (k.e <= 0 /\ Abs(50 * k.m - r * (2 ^ (-k.e))) <= 25)

C12_Witness ==
    /\ t_fn = "raw_kelvin_raw"
    /\ t_in.v = 14951
    /\ t_out = 14950

\* the value the k-th event of an EEPROM write sequence writes
WriteValue(k) == IF k = 1 THEN 0 ELSE data

\* the frame of a register write of v to register r by a session at address a
WriteFrame(a, r, v) ==
    <<r, v % 256, v \div 256, crc8(<<(2 * a) % 256, r, v % 256, v \div 256>>)>>

WritesWellFormed ==
    (op \in {"set_min", "set_max", "set_address"} /\ trace # <<>>) =>
        LET ew == EepromPart IN
        /\ \A k \in 1..Len(ew) :
              ew[k].ev = "write" =>
                 /\ ew[k].addr = address
                 /\ ew[k].rx = <<>>
                 /\ ew[k].bytes = WriteFrame(address, reg, WriteValue(k))
        /\ (\E k \in 1..Len(ew) : ew[k].ev = "write" /\ ~ew[k].ok) =>
              (pc = "done" /\ result = EepromErr)
        /\ AllOk(trace) => result # EepromErr

OneWritePerCall ==
    (pc \in {"ew_erase", "ew_program"} /\ pc' # pc) =>
        /\ Len(trace') = Len(trace) + 1
        /\ trace'[Len(trace')].ev = "write"
        /\ trace'[Len(trace')].ok <=> pc' \in {"ew_delay1", "ew_delay2"}
        /\ ~trace'[Len(trace')].ok <=> pc' = "done"

(***************************************************************************)
(* C13: the write-register primitive issues exactly one bus write, to the  *)
(* session's address, with the payload [register, v mod 256, v div 256,    *)
(* pec], pec being crc8 over [address<<1, register, v mod 256, v div 256]; *)
(* it reads nothing back and succeeds exactly when that transport call     *)
(* succeeds.                                                               *)
(***************************************************************************)
C13_WriteRegister == []WritesWellFormed /\ [][OneWritePerCall]_vars

C13_Witness ==
    /\ pc = "done"
    /\ op = "set_min"
    /\ address = 128
    /\ result = Ok(<<>>)
    /\ trace[3].bytes = <<33, 254, 255, RefCrc8(<<0, 33, 254, 255>>)>>

(***************************************************************************)
(* C14: read_ambient, get_min and get_max return every checksum-valid word *)
(* as Temperature::Raw of the word taken as a signed 16-bit integer, also  *)
(* when bit 15 is set, and never Flag; only read_object and read_object2   *)
(* can return Flag.                                                        *)
(***************************************************************************)
C14_PlainReads ==
    /\ (pc = "done" /\ op \in {"read_ambient", "get_min", "get_max"}
           /\ trace[1].ok /\ PecGood(trace[1])) =>
          LET w == RxWord(trace[1]) IN
          /\ IsRead(trace[1], CASE op = "read_ambient" -> TA
                                [] op = "get_min" -> TOMIN
                                [] op = "get_max" -> TOMAX)
          /\ result = Ok(Temp("Raw", IF w >= 32768 THEN w - 65536 ELSE w))
    /\ result.err = <<"Flag">> => op \in {"read_object", "read_object2"}

C14_Witness ==
    /\ pc = "done"
    /\ op = "read_ambient"
    /\ trace[1].ok
    /\ RxWord(trace[1]) = 33024
    /\ result = Ok(Temp("Raw", -32512))

(***************************************************************************)
(* C15: if the read of the address register inside set_address fails, by a *)
(* transport error or a checksum mismatch, set_address returns that error  *)
(* and issues no write and no delay, so the address cell is neither erased *)
(* nor reprogrammed; the erase write comes only after a successful,        *)
(* checksum-verified read.                                                 *)
(***************************************************************************)
ReadFailureStopsSetAddress ==
    (op = "set_address" /\ trace # <<>>) =>
        /\ IsRead(trace[1], ADDRESS)
        /\ ~trace[1].ok =>
              (Len(trace) = 1 /\ pc = "done" /\ result = Err(<<"I2C">>))
        /\ (trace[1].ok /\ ~PecGood(trace[1])) =>
              (Len(trace) = 1 /\ pc = "done" /\ result = Err(<<"Crc">>))
        /\ Len(trace) > 1 => (trace[1].ok /\ PecGood(trace[1]))

ReadKeepsCell == pc = "sa_read" => mem' = mem

C15_ReadFailureNoWrite == []ReadFailureStopsSetAddress /\ [][ReadKeepsCell]_vars

C15_Witness ==
    /\ pc = "done"
    /\ op = "set_address"
    /\ arg = 128
    /\ Len(trace) = 1
    /\ trace[1].ok
    /\ result = Err(<<"Crc">>)
    /\ mem[ADDRESS] = 48730

(***************************************************************************)
(* C16: no operation changes the bus address stored in the session: after  *)
(* any operations, a successful set_address(a) with another a included,    *)
(* every bus transaction and every checksum still uses the address given   *)
(* at construction.                                                        *)
(***************************************************************************)
AddressKept == pc # "unbuilt" => address' = address

TransactionsUseAddress ==
    \A i \in 1..Len(trace) :
        /\ trace[i].ev # "delay" => trace[i].addr = address
        /\ trace[i].ev = "write" =>
              trace[i].bytes[4] =
                 crc8(<<(2 * address) % 256, trace[i].bytes[1], trace[i].bytes[2],
                        trace[i].bytes[3]>>)
        /\ (trace[i].ev = "write_read" /\ trace[i].ok /\ result.status # "Err") =>
              trace[i].rx[3] =
                 crc8(<<(2 * address) % 256, trace[i].bytes[1],
                        ((2 * address) % 256) + 1, trace[i].rx[1], trace[i].rx[2]>>)

C16_SessionAddressFixed == []TransactionsUseAddress /\ [][AddressKept]_vars

C16_Witness ==
    /\ pc = "done"
    /\ op = "get_address"
    /\ address = 90
    /\ last_set.ok
    /\ last_set.a = 128
    /\ trace[1].addr = 90
    /\ result = Ok(128)

(***************************************************************************)
(* C17: on a device that stores every written value and keeps answering on *)
(* the session's address, after set_address(a) has succeeded on a cell     *)
(* that held c, get_address returns a and the high byte of the cell is     *)
(* still the high byte of c.                                               *)
(***************************************************************************)
\* the frame received is the one the device holds
Faithful(e) == e.ok /\ RxWord(e) = mem[e.bytes[1]] /\ PecGood(e)

C17_AddressReadBack ==
    /\ (pc = "done" /\ op = "set_address" /\ result = Ok(<<>>)) =>
          (last_set.ok /\ last_set.a = arg
             /\ mem[ADDRESS] = last_set.hi * 256 + last_set.a)
    /\ (pc = "done" /\ op = "get_address" /\ last_set.ok /\ Faithful(trace[1])) =>
          /\ result = Ok(last_set.a)
          /\ mem[ADDRESS] \div 256 = last_set.hi

C17_Witness ==
    /\ pc = "done"
    /\ op = "get_address"
    /\ address = 128
    /\ last_set = [a |-> 1, hi |-> 190, ok |-> TRUE]
    /\ Faithful(trace[1])
    /\ result = Ok(1)

(***************************************************************************)
(* C18: for every address a session can hold (1..0x80) the two direction   *)
(* bytes fed to the checksum are formed in 8 bits without overflow: the    *)
(* write-direction byte is (a*2) mod 256, which is even, the               *)
(* read-direction byte is that plus 1 and at most 0xFF; for a = 0x80 they  *)
(* are 0x00 and 0x01.                                                      *)
(***************************************************************************)
DirectionBytesFit ==
    /\ \A a \in 1..128 :
          /\ SA_W(a) \in 0..255
          /\ SA_W(a) % 2 = 0
          /\ SA_W(a) = (IF a = 128 THEN 0 ELSE 2 * a)
          /\ SA_R(a) = SA_W(a) + 1
          /\ SA_R(a) <= 255
    /\ SA_W(128) = 0
    /\ SA_R(128) = 1

\* C18: the session address is in 1..0x80 and its direction bytes fit 8 bits
C18_DirectionBytes ==
    /\ pc # "unbuilt" => address \in 1..128
    /\ DirectionBytesFit
    /\ \A i \in 1..Len(trace) :
          (trace[i].ev = "write_read" /\ trace[i].ok /\ result.status # "Err") =>
             trace[i].rx[3] = crc8(<<SA_W(address), trace[i].bytes[1], SA_R(address),
                                     trace[i].rx[1], trace[i].rx[2]>>)

C18_Witness ==
    /\ pc = "done"
    /\ op = "read_ambient"
    /\ address = 128
    /\ result.status = "Ok"
    /\ trace[1].rx[3] = RefCrc8(<<0, 6, 1, trace[1].rx[1], trace[1].rx[2]>>)

====
